---- MODULE Spec2Model ----
(***************************************************************************)
(* State-machine model of the `todos` Anchor program                       *)
(* (programs/todos/src/lib.rs): bounded-capacity todo lists whose items    *)
(* hold a bounty in lamports until they are cancelled or finished.         *)
(*                                                                         *)
(* A transaction is submitted (Submit), processed atomically by the        *)
(* instruction it names (new_list, add, cancel, finish) and its outcome    *)
(* collected by the client (Collect).  An instruction that returns an      *)
(* error leaves every account as it was.                                   *)
(***************************************************************************)
EXTENDS Integers, Sequences, FiniteSets, TLC

\* ------------------------------------------------------------------ bounds

\* Largest capacity a new_list request asks for.
MaxCapacity == 2
\* Largest amount by which a requested bounty exceeds the rent of an item.
MaxExtra == 1
\* Lamports the wallet O holds initially: a list of capacity 2 and two items.
OwnerLamports == 210
\* Lamports the wallet A holds initially: one item.
CreatorLamports == 50
\* Lamports the wallet O holds initially in SpecOrder: a list of capacity 3
\* and three items.
ListLamports == 340

\* ------------------------------------------------------- program constants

\* name_seed keeps at most this many bytes of a name.
SeedMaxLen == 32

\* ------------------------------------------------------------- identities

Users == {"O", "A", "B"}
\* The identities that add, cancel and finish requests name as the list owner.
ListOwners == {"O", "A"}

ItemKeys == {"i1", "i2", "i3"}

\* A name is a sequence of bytes.
ShortName == <<7>>
LongNameA == [i \in 1..(SeedMaxLen + 1) |-> 1]
LongNameB == [i \in 1..(SeedMaxLen + 1) |-> IF i > SeedMaxLen THEN 2 ELSE 1]
ListNames == {ShortName, LongNameA, LongNameB}
ItemNames == {<<1>>}
\* The list names that add, cancel and finish requests pass as list_name.
RefNames == {ShortName, LongNameB}

Capacities == 0..MaxCapacity

\* ---------------------------------------------------------- pure functions

\* Mutant of name_seed: the whole name enters the address.
name_seed_Whole(name) == name

\* The bytes of a name that enter the list address.
name_seed(name) ==
    IF Len(name) > SeedMaxLen THEN SubSeq(name, 1, SeedMaxLen) ELSE name

\* The program-derived address of a list: the tag "todolist", the owner's key
\* and the name seed.  The derivation is injective on its seeds.
ListAddress(owner, name) == <<"todolist", owner, name_seed(name)>>

TodoList_space(name, capacity) ==
    8 + 32 + 1 + 2 + 4 + Len(name) + 4 + capacity * 32

ListItem_space(name) ==
    8 + 32 + 1 + 1 + 4 + Len(name)

\* The rent-exempt deposit an `init` account of `space` bytes receives from
\* its payer, at one lamport per byte.
minimum_balance(space) == space

\* Rust's u64::checked_sub: None (here -1) on underflow.
checked_sub(a, b) == IF a < b THEN -1 ELSE a - b

\* Vec::contains on the reference sequence.
Contains(lines, key) == \E k \in 1..Len(lines) : lines[k] = key

\* Mutant of Retain: Vec::swap_remove, the last key takes the place of `key`.
Retain_SwapRemove(lines, key) ==
    IF ~Contains(lines, key) THEN lines
    ELSE LET k == CHOOSE j \in 1..Len(lines) : lines[j] = key
             n == Len(lines)
         IN  [j \in 1..(n - 1) |-> IF j = k THEN lines[n] ELSE lines[j]]

\* Vec::retain(|k| k != key).
Retain(lines, key) == SelectSeq(lines, LAMBDA k : k # key)

ItemRent == minimum_balance(ListItem_space(<<1>>))

\* Requested bounties: one lamport below the rent of an item, up to MaxExtra above.
Bounties == (ItemRent - 1)..(ItemRent + MaxExtra)

\* Initial funding: O can pay for lists and items, A for one item, B for nothing.
InitLamports ==
    [u \in Users |->
        IF u = "O" THEN OwnerLamports ELSE IF u = "A" THEN CreatorLamports ELSE 0]

\* ------------------------------------------------------------------ state

VARIABLES
    lists,      \* list address -> TodoList account (with its lamports)
    items,      \* item address -> ListItem account (with its lamports)
    lamports,   \* wallet -> lamports
    tx,         \* the transaction submitted last, until its outcome is collected
    result,     \* its outcome: "Pending" until it is processed, then "Ok" or the error
    closed      \* history: the item addresses whose account was closed (SpecHistory)

vars == <<lists, items, lamports, tx, result, closed>>

NoRequest == [op |-> "none"]

Init ==
    /\ lists = [l \in {} |-> l]
    /\ items = [i \in {} |-> i]
    /\ lamports = InitLamports
    /\ tx = NoRequest
    /\ result = "None"
    /\ closed = {}

\* ---------------------------------------------------------------- requests

NewListRequests ==
    [op : {"new_list"}, user : Users, name : ListNames, capacity : Capacities]

\* A client derives the list address from the owner and list name it claims.
AddRequests ==
    {[op |-> "add", user |-> u, list |-> ListAddress(o, n), list_owner |-> o,
      list_name |-> n, item |-> i, item_name |-> m, bounty |-> b] :
        u \in Users, o \in ListOwners, n \in RefNames, i \in ItemKeys,
        m \in ItemNames, b \in Bounties}

CancelRequests ==
    {[op |-> "cancel", user |-> u, list |-> ListAddress(o, n), list_owner |-> o,
      list_name |-> n, item |-> i, item_creator |-> c] :
        u \in Users, o \in ListOwners, n \in RefNames, i \in ItemKeys, c \in Users}

FinishRequests ==
    {[op |-> "finish", user |-> u, list |-> ListAddress(o, n), list_owner |-> o,
      list_name |-> n, item |-> i] :
        u \in Users, o \in ListOwners, n \in RefNames, i \in ItemKeys}

Requests == NewListRequests \cup AddRequests \cup CancelRequests \cup FinishRequests

Submit ==
    /\ result = "None"
    /\ \E r \in Requests : tx' = r
    /\ result' = "Pending"
    /\ UNCHANGED <<lists, items, lamports>>

\* The client collects the outcome of its transaction before it sends another.
Collect ==
    /\ result \notin {"None", "Pending"}
    /\ tx' = NoRequest
    /\ result' = "None"
    /\ UNCHANGED <<lists, items, lamports>>

\* The instruction `op` is the one to process now.
Processing(op) == result = "Pending" /\ tx.op = op

\* Mutant of Reject: a failed finish keeps the creator's confirmation.
Reject_FlagKept(code) ==
    /\ result' = code
    /\ items' = IF tx.op = "finish" /\ tx.item \in DOMAIN items
                   THEN [items EXCEPT ![tx.item].creator_finished = TRUE]
                   ELSE items
    /\ UNCHANGED <<lists, lamports, tx>>

\* A transaction that fails is rolled back as a whole.
Reject(code) ==
    /\ result' = code
    /\ UNCHANGED <<lists, items, lamports, tx>>

\* -------------------------------------------------------------- new_list

new_list ==
    /\ Processing("new_list")
    /\ LET r    == tx
           l    == ListAddress(r.user, r.name)
           rent == minimum_balance(TodoList_space(r.name, r.capacity))
       IN  IF l \in DOMAIN lists THEN Reject("AccountInUse")
           ELSE IF lamports[r.user] < rent THEN Reject("InsufficientFunds")
           ELSE /\ lists' = lists @@ (l :> [list_owner |-> r.user,
                                            name       |-> r.name,
                                            capacity   |-> r.capacity,
                                            lines      |-> <<>>,
                                            lamports   |-> rent])
                /\ lamports' = [lamports EXCEPT ![r.user] = @ - rent]
                /\ result' = "Ok"
                /\ UNCHANGED tx
                /\ UNCHANGED items

\* -------------------------------------------------------------------- add

\* Mutants of HasRoom: the bound off by one, and no check at all.
HasRoom_OffByOne(list) == Len(list.lines) <= list.capacity
HasRoom_Unchecked(list) == TRUE

\* require!(list.lines.len() < list.capacity as usize, ErrorCode::ListFull)
HasRoom(list) == Len(list.lines) < list.capacity

\* Mutants of transfer_amount: a saturating subtraction; the whole bounty,
\* whatever the account holds already.
transfer_amount_Saturating(bounty, account_lamports) ==
    IF bounty < account_lamports THEN 0 ELSE bounty - account_lamports
transfer_amount_Whole(bounty, account_lamports) == bounty

\* bounty.checked_sub(account_lamports): the lamports still to move, -1 for None.
transfer_amount(bounty, account_lamports) == checked_sub(bounty, account_lamports)

\* The ListItem account the handler leaves behind.
NewItem(r, held) ==
    [creator             |-> r.user,
     creator_finished    |-> FALSE,
     list_owner_finished |-> FALSE,
     name                |-> r.item_name,
     lamports            |-> held]

\* Mutant of SeedsMatch: the address of the list account is not checked.
SeedsMatch_Any(r) == TRUE

\* seeds = [b"todolist", list_owner.key, name_seed(&list_name)]
SeedsMatch(r) == r.list = ListAddress(r.list_owner, r.list_name)

\* has_one = list_owner
HasOneListOwner(r) == lists[r.list].list_owner = r.list_owner

add ==
    /\ Processing("add")
    /\ LET r    == tx
           rent == minimum_balance(ListItem_space(r.item_name))
       IN  IF r.list \notin DOMAIN lists THEN Reject("AccountNotInitialized")
           ELSE IF r.item \in DOMAIN items THEN Reject("AccountInUse")
           ELSE IF lamports[r.user] < rent THEN Reject("InsufficientFunds")
           ELSE IF ~SeedsMatch(r) THEN Reject("ConstraintSeeds")
           ELSE IF ~HasOneListOwner(r) THEN Reject("WrongListOwner")
           ELSE IF ~HasRoom(lists[r.list]) THEN Reject("ListFull")
           ELSE LET amount == transfer_amount(r.bounty, rent)
                IN  IF amount < 0 THEN Reject("BountyTooSmall")
                    ELSE IF amount > 0 /\ lamports[r.user] - rent < amount
                         THEN Reject("InsufficientFunds")
                    ELSE /\ lists' = [lists EXCEPT ![r.list].lines = Append(@, r.item)]
                         /\ items' = items @@ (r.item :> NewItem(r, rent + amount))
                         /\ lamports' = [lamports EXCEPT ![r.user] = @ - (rent + amount)]
                         /\ result' = "Ok"
                         /\ UNCHANGED tx

\* ----------------------------------------------------------------- close

\* Mutants of CloseItem: the rent stays behind; the reference stays behind.
CloseItem_Partial(l, i, recipient) ==
    /\ items' = [k \in DOMAIN items \ {i} |-> items[k]]
    /\ lamports' = [lamports EXCEPT ![recipient] =
                        @ + items[i].lamports - minimum_balance(ListItem_space(items[i].name))]
    /\ lists' = [lists EXCEPT ![l].lines = Retain(@, i)]
CloseItem_KeepRef(l, i, recipient) ==
    /\ items' = [k \in DOMAIN items \ {i} |-> items[k]]
    /\ lamports' = [lamports EXCEPT ![recipient] = @ + items[i].lamports]
    /\ lists' = lists

\* AccountsClose::close: the account's lamports go to `recipient` and the
\* account ceases to exist; the item's key leaves the list's lines.
CloseItem(l, i, recipient) ==
    /\ items' = [k \in DOMAIN items \ {i} |-> items[k]]
    /\ lamports' = [lamports EXCEPT ![recipient] = @ + items[i].lamports]
    /\ lists' = [lists EXCEPT ![l].lines = Retain(@, i)]

\* ----------------------------------------------------------------- cancel

\* Mutant of ItemListed: the membership test is left out.
ItemListed_Any(list, key) == TRUE

\* require!(list.lines.contains(item.to_account_info().key), ErrorCode::ItemNotFound)
ItemListed(list, key) == Contains(list.lines, key)

\* Mutant of AddressIsCreator: any recipient account is accepted.
AddressIsCreator_Any(r) == TRUE

\* address = item.creator
AddressIsCreator(r) == r.item_creator = items[r.item].creator

\* Mutants of CancelAllowed: anybody may cancel; only the list's owner may.
CancelAllowed_Any(list, item, user) == TRUE
CancelAllowed_OwnerOnly(list, item, user) == list.list_owner = user

\* &list.list_owner == user || &item.creator == user
CancelAllowed(list, item, user) == list.list_owner = user \/ item.creator = user

\* Mutant of CancelRecipient: the caller is paid.
CancelRecipient_Caller(r) == r.user

\* item.close(item_creator.to_account_info())
CancelRecipient(r) == r.item_creator

cancel ==
    /\ Processing("cancel")
    /\ LET r == tx
       IN  IF r.list \notin DOMAIN lists \/ r.item \notin DOMAIN items
                THEN Reject("AccountNotInitialized")
           ELSE IF ~SeedsMatch(r) THEN Reject("ConstraintSeeds")
           ELSE IF ~HasOneListOwner(r) THEN Reject("WrongListOwner")
           ELSE IF ~AddressIsCreator(r) THEN Reject("WrongItemCreator")
           ELSE IF ~CancelAllowed(lists[r.list], items[r.item], r.user)
                THEN Reject("CancelPermissions")
           ELSE IF ~ItemListed(lists[r.list], r.item) THEN Reject("ItemNotFound")
           ELSE /\ CloseItem(r.list, r.item, CancelRecipient(r))
                /\ result' = "Ok"
                /\ UNCHANGED tx

\* ----------------------------------------------------------------- finish

\* Mutant of FinishAllowed: anybody may finish.
FinishAllowed_Any(list, item, user) == TRUE

\* is_item_creator || is_list_owner
FinishAllowed(list, item, user) == item.creator = user \/ list.list_owner = user

\* Mutant of Confirm: a caller who is the creator confirms as creator only.
Confirm_OneRole(list, item, user) ==
    IF item.creator = user THEN [item EXCEPT !.creator_finished = TRUE]
    ELSE IF list.list_owner = user THEN [item EXCEPT !.list_owner_finished = TRUE]
    ELSE item

\* Mutant of Confirm: the caller's flag is flipped.
Confirm_Toggle(list, item, user) ==
    [item EXCEPT
        !.creator_finished    = IF item.creator = user THEN ~@ ELSE @,
        !.list_owner_finished = IF list.list_owner = user THEN ~@ ELSE @]

\* The item's flags after the caller's confirmation is recorded.
Confirm(list, item, user) ==
    [item EXCEPT
        !.creator_finished    = IF item.creator = user THEN TRUE ELSE @,
        !.list_owner_finished = IF list.list_owner = user THEN TRUE ELSE @]

\* Mutants of BothFinished: one confirmation is enough; the item is never closed.
BothFinished_Either(item) == item.creator_finished \/ item.list_owner_finished
BothFinished_Never(item) == FALSE

\* if item.creator_finished && item.list_owner_finished
BothFinished(item) == item.creator_finished /\ item.list_owner_finished

\* item.close(ctx.accounts.list_owner.to_account_info())
FinishRecipient(r) == r.list_owner

finish ==
    /\ Processing("finish")
    /\ LET r == tx
       IN  IF r.list \notin DOMAIN lists \/ r.item \notin DOMAIN items
                THEN Reject("AccountNotInitialized")
           ELSE IF ~SeedsMatch(r) THEN Reject("ConstraintSeeds")
           ELSE IF ~HasOneListOwner(r) THEN Reject("WrongListOwner")
           ELSE IF ~ItemListed(lists[r.list], r.item) THEN Reject("ItemNotFound")
           ELSE IF ~FinishAllowed(lists[r.list], items[r.item], r.user)
                THEN Reject("FinishPermissions")
           ELSE LET confirmed == Confirm(lists[r.list], items[r.item], r.user)
                IN  /\ IF BothFinished(confirmed)
                          THEN CloseItem(r.list, r.item, FinishRecipient(r))
                          ELSE /\ items' = [items EXCEPT ![r.item] = confirmed]
                               /\ UNCHANGED <<lists, lamports>>
                    /\ result' = "Ok"
                    /\ UNCHANGED tx

\* The finish instruction as a function: the accounts `acc` (lists, items,
\* lamports) after the finish request r, and its result.
FinishOutcome(acc, r) ==
    LET rejected(code) == [lists |-> acc.lists, items |-> acc.items,
                           lamports |-> acc.lamports, result |-> code]
    IN  IF r.list \notin DOMAIN acc.lists \/ r.item \notin DOMAIN acc.items
             THEN rejected("AccountNotInitialized")
        ELSE IF ~SeedsMatch(r) THEN rejected("ConstraintSeeds")
        ELSE IF acc.lists[r.list].list_owner # r.list_owner THEN rejected("WrongListOwner")
        ELSE IF ~ItemListed(acc.lists[r.list], r.item) THEN rejected("ItemNotFound")
        ELSE IF ~FinishAllowed(acc.lists[r.list], acc.items[r.item], r.user)
             THEN rejected("FinishPermissions")
        ELSE LET confirmed == Confirm(acc.lists[r.list], acc.items[r.item], r.user)
             IN  IF BothFinished(confirmed)
                 THEN [lists    |-> [acc.lists EXCEPT ![r.list].lines = Retain(@, r.item)],
                       items    |-> [k \in DOMAIN acc.items \ {r.item} |-> acc.items[k]],
                       lamports |-> [acc.lamports EXCEPT ![FinishRecipient(r)] =
                                        @ + acc.items[r.item].lamports],
                       result   |-> "Ok"]
                 ELSE [lists    |-> acc.lists,
                       items    |-> [acc.items EXCEPT ![r.item] = confirmed],
                       lamports |-> acc.lamports,
                       result   |-> "Ok"]

\* ------------------------------------------------------------ specification

\* The history of closed accounts is not recorded.
Untracked == UNCHANGED closed

Next ==
    \/ Submit /\ Untracked
    \/ Collect /\ Untracked
    \/ new_list /\ Untracked
    \/ add /\ Untracked
    \/ cancel /\ Untracked
    \/ finish /\ Untracked

Spec == Init /\ [][Next]_vars

\* ------------------------------------- specification: any list account

\* A client may pass any list account together with any claimed owner and
\* list name: the list account is an input of its own, validated by the
\* seeds and has_one constraints.
ListAccounts == {ListAddress(o, n) : o \in ListOwners, n \in RefNames}
AccountItemKeys == {"i1", "i2"}

AccountRequests ==
    {r \in NewListRequests : r.name \in RefNames}
    \cup {[op |-> "add", user |-> u, list |-> l, list_owner |-> o,
           list_name |-> n, item |-> i, item_name |-> m, bounty |-> b] :
             u \in Users, l \in ListAccounts, o \in ListOwners, n \in RefNames,
             i \in AccountItemKeys, m \in ItemNames, b \in Bounties}
    \cup {[op |-> "cancel", user |-> u, list |-> l, list_owner |-> o,
           list_name |-> n, item |-> i, item_creator |-> c] :
             u \in Users, l \in ListAccounts, o \in ListOwners, n \in RefNames,
             i \in AccountItemKeys, c \in Users}
    \cup {[op |-> "finish", user |-> u, list |-> l, list_owner |-> o,
           list_name |-> n, item |-> i] :
             u \in Users, l \in ListAccounts, o \in ListOwners, n \in RefNames,
             i \in AccountItemKeys}

SubmitFrom(requests) ==
    /\ result = "None"
    /\ \E r \in requests : tx' = r
    /\ result' = "Pending"
    /\ UNCHANGED <<lists, items, lamports>>

SubmitAccounts == SubmitFrom(AccountRequests)

NextAccounts ==
    \/ SubmitAccounts /\ Untracked
    \/ Collect /\ Untracked
    \/ new_list /\ Untracked
    \/ add /\ Untracked
    \/ cancel /\ Untracked
    \/ finish /\ Untracked

SpecAccounts == Init /\ [][NextAccounts]_vars

\* ------------------------------------------ specification: one list, history

\* The requests of `users` that name the one list (owner, name), created with
\* a capacity of `capacities`, and the items `keys`.
ListRequests(owner, name, capacities, users, keys, bounties) ==
    [op : {"new_list"}, user : {owner}, name : {name}, capacity : capacities]
    \cup {[op |-> "add", user |-> u, list |-> ListAddress(owner, name),
           list_owner |-> owner, list_name |-> name, item |-> i, item_name |-> m,
           bounty |-> b] :
             u \in users, i \in keys, m \in ItemNames, b \in bounties}
    \cup {[op |-> "cancel", user |-> u, list |-> ListAddress(owner, name),
           list_owner |-> owner, list_name |-> name, item |-> i, item_creator |-> c] :
             u \in users, i \in keys, c \in users}
    \cup {[op |-> "finish", user |-> u, list |-> ListAddress(owner, name),
           list_owner |-> owner, list_name |-> name, item |-> i] :
             u \in users, i \in keys}

HistoryRequests ==
    ListRequests("O", ShortName, Capacities \ {0}, Users, {"i1", "i2"}, Bounties)

SubmitHistory == SubmitFrom(HistoryRequests)

\* The addresses of the item accounts closed so far are recorded.
Tracked == closed' = closed \cup (DOMAIN items \ DOMAIN items')

NextHistory ==
    \/ SubmitHistory /\ Tracked
    \/ Collect /\ Tracked
    \/ new_list /\ Tracked
    \/ add /\ Tracked
    \/ cancel /\ Tracked
    \/ finish /\ Tracked

SpecHistory == Init /\ [][NextHistory]_vars

\* ------------------------------------ specification: one list, three items

\* O can pay for a list of three items and the items.
InitOrder ==
    /\ lists = [l \in {} |-> l]
    /\ items = [i \in {} |-> i]
    /\ lamports = [InitLamports EXCEPT !["O"] = ListLamports]
    /\ tx = NoRequest
    /\ result = "None"
    /\ closed = {}

OrderRequests ==
    ListRequests("O", ShortName, {MaxCapacity + 1}, Users, ItemKeys, Bounties)

SubmitOrder == SubmitFrom(OrderRequests)

NextOrder ==
    \/ SubmitOrder /\ Untracked
    \/ Collect /\ Untracked
    \/ new_list /\ Untracked
    \/ add /\ Untracked
    \/ cancel /\ Untracked
    \/ finish /\ Untracked

SpecOrder == InitOrder /\ [][NextOrder]_vars

\* ------------------------------------------------ specification: fairness

\* The creator of the item at address i sends the cancel of that item: the
\* list is the one that references it, item_creator the creator itself.
CreatorCancel(i) ==
    /\ result = "None"
    /\ i \in DOMAIN items
    /\ \E l \in DOMAIN lists :
         /\ Contains(lists[l].lines, i)
         /\ tx' = [op |-> "cancel", user |-> items[i].creator, list |-> l,
                   list_owner |-> lists[l].list_owner, list_name |-> lists[l].name,
                   item |-> i, item_creator |-> items[i].creator]
    /\ result' = "Pending"
    /\ UNCHANGED <<lists, items, lamports>>
    /\ Tracked

\* Transactions are processed and their outcomes collected, and a creator
\* who can send the cancel of its item again and again does send it.
SpecLive ==
    /\ SpecHistory
    /\ WF_vars(NextHistory)
    /\ \A i \in {"i1", "i2"} : SF_vars(CreatorCancel(i))

\* ------------------------------------------------------------------ claims

AccountsUnchanged == UNCHANGED <<lists, items, lamports>>

Failed(code) == code \notin {"Ok", "Pending", "None"}

\* The list named by the transaction is at capacity / has room.
TxListFull == Len(lists[tx.list].lines) = lists[tx.list].capacity

\* The runtime can create the item account of an add: the list account exists,
\* the item address is unused and the payer holds the rent of the item.
AddAdmitted ==
    /\ tx.list \in DOMAIN lists
    /\ tx.item \notin DOMAIN items
    /\ lamports[tx.user] >= minimum_balance(ListItem_space(tx.item_name))

\* C1: in every reachable state every list holds at most `capacity` item
\* references, lists of capacity 0 included.
C1_CapacityRespected ==
    \A l \in DOMAIN lists : Len(lists[l].lines) <= lists[l].capacity

\* An add has filled a list to its positive capacity while a list of
\* capacity 0 exists.
C1_Witness ==
    /\ tx.op = "add" /\ result = "Ok"
    /\ lists[tx.list].capacity > 0
    /\ Len(lists[tx.list].lines) = lists[tx.list].capacity
    /\ \E l \in DOMAIN lists : lists[l].capacity = 0

\* C2: an add against a list whose reference count equals its capacity fails
\* and changes no list, no item and no balance; the error is ListFull whenever
\* the runtime can create the item account at all.
C2_AddOnFullList ==
    [][(Processing("add") /\ tx.list \in DOMAIN lists /\ TxListFull)
        => /\ Failed(result')
           /\ AccountsUnchanged
           /\ (AddAdmitted => result' = "ListFull")]_vars

\* A third add, with a sufficient bounty, was refused by a list holding 2 of 2.
C2_Witness ==
    /\ tx.op = "add" /\ result = "ListFull"
    /\ tx.bounty >= minimum_balance(ListItem_space(tx.item_name))
    /\ lists[tx.list].capacity = 2 /\ Len(lists[tx.list].lines) = 2
    /\ tx.item \notin DOMAIN items

\* C3 as stated: an add whose bounty is below the rent already held by the new
\* item account always fails with BountyTooSmall.
C3_AlwaysBountyTooSmall ==
    [][(Processing("add") /\ AddAdmitted
        /\ tx.bounty < minimum_balance(ListItem_space(tx.item_name)))
        => result' = "BountyTooSmall"]_vars

\* C3 amended: such an add always fails and changes no list, no item and no
\* balance; the error is BountyTooSmall when the list has room and ListFull
\* when it has none.
C3_BountyTooSmall ==
    [][(Processing("add") /\ tx.list \in DOMAIN lists
        /\ tx.bounty < minimum_balance(ListItem_space(tx.item_name)))
        => /\ Failed(result')
           /\ AccountsUnchanged
           /\ tx.item \notin DOMAIN items => tx.item \notin DOMAIN items'
           /\ (AddAdmitted /\ ~TxListFull => result' = "BountyTooSmall")
           /\ (AddAdmitted /\ TxListFull => result' = "ListFull")]_vars

\* An add into a list with room was refused for its bounty; no item exists.
C3_Witness ==
    /\ tx.op = "add" /\ result = "BountyTooSmall"
    /\ Len(lists[tx.list].lines) < lists[tx.list].capacity
    /\ tx.item \notin DOMAIN items
    /\ ~Contains(lists[tx.list].lines, tx.item)

\* C4: a successful cancel was called by the list owner or the item's creator;
\* it destroys the item, removes its reference from the list and pays the
\* item's whole balance to the stored creator and to nobody else, whatever the
\* confirmation flags are.
C4_CancelPaysCreator ==
    [][(Processing("cancel") /\ result' = "Ok")
        => LET i == tx.item
               l == tx.list
               c == items[i].creator
           IN  /\ tx.user \in {lists[l].list_owner, c}
               /\ Contains(lists[l].lines, i)
               /\ i \notin DOMAIN items'
               /\ ~Contains(lists'[l].lines, i)
               /\ lamports' = [lamports EXCEPT ![c] = @ + items[i].lamports]]_vars

\* The list owner has cancelled an item that another identity created.
C4_Witness ==
    /\ tx.op = "cancel" /\ result = "Ok"
    /\ tx.user = lists[tx.list].list_owner
    /\ tx.user # tx.item_creator
    /\ tx.item \notin DOMAIN items
    /\ lamports[tx.item_creator] = InitLamports[tx.item_creator]

\* The finish being processed leaves both confirmations recorded.
BothConfirmedAfter ==
    /\ items[tx.item].creator_finished \/ items[tx.item].creator = tx.user
    /\ items[tx.item].list_owner_finished \/ lists[tx.list].list_owner = tx.user

\* C5: a finish destroys the item and pays exactly when, with the caller's
\* confirmation, both creator_finished and owner_finished are true, in either
\* order of the two calls; it then pays the item's whole balance to the list
\* owner.  A successful finish that leaves one confirmation missing keeps the
\* item, its reference and every balance.
C5_FinishPaysOwnerOnBoth ==
    [][Processing("finish")
        => LET i == tx.item
               l == tx.list
           IN  /\ (result' = "Ok" /\ BothConfirmedAfter)
                    => /\ i \notin DOMAIN items'
                       /\ ~Contains(lists'[l].lines, i)
                       /\ lamports' = [lamports EXCEPT
                              ![lists[l].list_owner] = @ + items[i].lamports]
               /\ (result' = "Ok" /\ ~BothConfirmedAfter)
                    => /\ i \in DOMAIN items'
                       /\ items'[i].lamports = items[i].lamports
                       /\ lists' = lists
                       /\ Contains(lists'[l].lines, i)
                       /\ lamports' = lamports
               /\ result' # "Ok" => AccountsUnchanged]_vars

\* The creator's finish arrived after the owner's and released the bounty to
\* the owner.
C5_Witness ==
    /\ tx.op = "finish" /\ result = "Ok"
    /\ tx.user # lists[tx.list].list_owner
    /\ tx.item \notin DOMAIN items
    /\ \A l \in DOMAIN lists : ~Contains(lists[l].lines, tx.item)

\* The transaction names a list account and an item account that exist, and
\* the item is not among the list's references.
TxItemNotListed ==
    /\ tx.list \in DOMAIN lists
    /\ tx.item \in DOMAIN items
    /\ ~Contains(lists[tx.list].lines, tx.item)

\* The caller of the transaction is the owner of its list or the creator of
\* its item.
TxCallerIsParty == tx.user \in {lists[tx.list].list_owner, items[tx.item].creator}

\* C6 as stated: a cancel or finish naming an existing item that the named
\* list does not reference yields ItemNotFound for every caller (the cancel
\* passing the item's stored creator as item_creator).
C6_AlwaysItemNotFound ==
    [][(/\ Processing("cancel") \/ Processing("finish")
        /\ TxItemNotListed
        /\ Processing("cancel") => tx.item_creator = items[tx.item].creator)
        => result' = "ItemNotFound"]_vars

\* C6 amended: such a request is always rejected and changes nothing.  A
\* finish yields ItemNotFound for every caller; a cancel yields ItemNotFound
\* when item_creator is the stored creator and the caller is the list owner or
\* the item's creator, WrongItemCreator when item_creator is another identity,
\* and CancelPermissions when the caller is neither.
C6_ItemNotFound ==
    [][((Processing("cancel") \/ Processing("finish")) /\ TxItemNotListed)
        => /\ Failed(result')
           /\ AccountsUnchanged
           /\ Processing("finish") => result' = "ItemNotFound"
           /\ Processing("cancel") =>
                  result' = IF tx.item_creator # items[tx.item].creator
                                THEN "WrongItemCreator"
                            ELSE IF ~TxCallerIsParty THEN "CancelPermissions"
                            ELSE "ItemNotFound"]_vars

\* A cancel was refused with ItemNotFound for an item that another list
\* references.
C6_Witness ==
    /\ tx.op = "cancel" /\ result = "ItemNotFound"
    /\ tx.item \in DOMAIN items
    /\ \E l \in DOMAIN lists \ {tx.list} : Contains(lists[l].lines, tx.item)

\* The sum of f over the finite set S.
RECURSIVE SumOver(_, _)
SumOver(f, S) ==
    IF S = {} THEN 0
    ELSE LET x == CHOOSE y \in S : TRUE IN f[x] + SumOver(f, S \ {x})

\* All lamports held by wallets, items and lists.
TotalLamports ==
    SumOver(lamports, Users)
    + SumOver([i \in DOMAIN items |-> items[i].lamports], DOMAIN items)
    + SumOver([l \in DOMAIN lists |-> lists[l].lamports], DOMAIN lists)

\* C7: while an item exists its balance is constant; the step that destroys
\* it adds exactly that balance to one wallet and changes no other wallet; no
\* wallet gains lamports in a step that destroys no item; a list's balance
\* never changes; and the total of all balances is conserved.
C7_BountyReleasedOnce ==
    [][AccountsUnchanged \/
       (/\ \A i \in DOMAIN items :
              /\ i \in DOMAIN items' => items'[i].lamports = items[i].lamports
              /\ i \notin DOMAIN items' =>
                     \E u \in Users :
                         lamports' = [lamports EXCEPT ![u] = @ + items[i].lamports]
        /\ \A u \in Users :
              lamports'[u] > lamports[u] => DOMAIN items \ DOMAIN items' # {}
        /\ \A l \in DOMAIN lists :
              l \in DOMAIN lists' /\ lists'[l].lamports = lists[l].lamports
        /\ TotalLamports' = TotalLamports)]_vars

\* A's bounty, larger than the rent of the item, has been released to O by the
\* finish that destroyed the item.
C7_Witness ==
    /\ tx.op = "finish" /\ result = "Ok"
    /\ tx.item \notin DOMAIN items
    /\ lamports["A"] = CreatorLamports - (ItemRent + 1)
    /\ TotalLamports = OwnerLamports + CreatorLamports

\* C8: every existing item is referenced by exactly one list.
C8_ReferencedByOneList ==
    \A i \in DOMAIN items :
        Cardinality({l \in DOMAIN lists : Contains(lists[l].lines, i)}) = 1

\* An item was just added to one of two lists that both can hold items.
C8_Witness ==
    /\ tx.op = "add" /\ result = "Ok"
    /\ \E l \in DOMAIN lists \ {tx.list} : lists[l].capacity > 0
    /\ Contains(lists[tx.list].lines, tx.item)

\* The transaction names a list and an item that exist and its caller is
\* neither the list's owner nor the item's creator.
TxCallerIsStranger ==
    /\ tx.list \in DOMAIN lists
    /\ tx.item \in DOMAIN items
    /\ ~TxCallerIsParty

\* C9 as stated: a cancel by a caller who is neither the list owner nor the
\* item's creator is rejected with CancelPermissions whatever item_creator is.
C9_AlwaysCancelPermissions ==
    [][(Processing("cancel") /\ TxCallerIsStranger)
        => result' = "CancelPermissions"]_vars

\* C9 amended: such a cancel is always rejected, the item is not destroyed
\* and no funds move; the error is CancelPermissions when item_creator is the
\* item's stored creator, whether or not the list references the item, and
\* WrongItemCreator when item_creator is another identity.
C9_StrangerCannotCancel ==
    [][(Processing("cancel") /\ TxCallerIsStranger)
        => /\ AccountsUnchanged
           /\ result' = IF tx.item_creator = items[tx.item].creator
                             THEN "CancelPermissions" ELSE "WrongItemCreator"]_vars

\* A stranger's cancel was refused with CancelPermissions although the named
\* list does not reference the item.
C9_Witness ==
    /\ tx.op = "cancel" /\ result = "CancelPermissions"
    /\ TxCallerIsStranger
    /\ ~Contains(lists[tx.list].lines, tx.item)

\* C10: a finish of an item that the named list references, by a caller who
\* is neither the item's creator nor the list owner, is rejected with
\* FinishPermissions and changes no flag, no reference and no balance.
C10_StrangerCannotFinish ==
    [][(/\ Processing("finish")
        /\ TxCallerIsStranger
        /\ Contains(lists[tx.list].lines, tx.item))
        => /\ result' = "FinishPermissions"
           /\ AccountsUnchanged]_vars

\* A stranger's finish was refused; the creator's earlier confirmation stands.
C10_Witness ==
    /\ tx.op = "finish" /\ result = "FinishPermissions"
    /\ TxCallerIsStranger
    /\ Contains(lists[tx.list].lines, tx.item)
    /\ items[tx.item].creator_finished /\ ~items[tx.item].list_owner_finished

\* The transaction's list account exists and is the one derived from the
\* owner and list name the transaction claims.
TxListDerived ==
    /\ tx.list \in DOMAIN lists
    /\ tx.list = ListAddress(tx.list_owner, tx.list_name)

\* C11: a cancel whose item_creator account is not the creator stored in the
\* item is rejected with WrongItemCreator, whoever the caller is, and changes
\* no account; and whenever a cancel closes an item, the item's whole balance
\* goes to the creator stored in it and to nobody else.
C11_WrongItemCreator ==
    [][Processing("cancel") =>
        /\ (/\ TxListDerived
            /\ tx.item \in DOMAIN items
            /\ tx.item_creator # items[tx.item].creator)
              => /\ result' = "WrongItemCreator"
                 /\ AccountsUnchanged
        /\ \A i \in DOMAIN items \ DOMAIN items' :
              lamports' = [lamports EXCEPT ![items[i].creator] = @ + items[i].lamports]]_vars

\* The owner of the list asked for the bounty of somebody else's listed item.
C11_Witness ==
    /\ tx.op = "cancel"
    /\ result = "WrongItemCreator"
    /\ tx.user = lists[tx.list].list_owner
    /\ tx.item_creator = tx.user
    /\ items[tx.item].creator # tx.user
    /\ Contains(lists[tx.list].lines, tx.item)

FirstBytes(name) ==
    [k \in 1..(IF Len(name) < SeedMaxLen THEN Len(name) ELSE SeedMaxLen) |-> name[k]]

\* The lists of `owner` whose name agrees with `name` on the first 32 bytes.
ListsNamedLike(owner, name) ==
    {l \in DOMAIN lists :
        lists[l].list_owner = owner /\ FirstBytes(lists[l].name) = FirstBytes(name)}

OneListPerName ==
    \A l \in DOMAIN lists : ListsNamedLike(lists[l].list_owner, lists[l].name) = {l}

\* C13: an owner never has two lists whose names agree on the first 32 bytes.
\* A new_list of an owner who has a list with such a name fails and changes
\* nothing; a new_list for a pair not in use, by a caller who can pay the
\* list's rent, succeeds and adds exactly one list: empty, of the capacity
\* asked for and owned by the caller.
C13_OneListPerOwnerAndName ==
    [][/\ DOMAIN lists' # DOMAIN lists => OneListPerName'
       /\ Processing("new_list") =>
            IF ListsNamedLike(tx.user, tx.name) # {}
            THEN Failed(result') /\ AccountsUnchanged
            ELSE lamports[tx.user] >= minimum_balance(TodoList_space(tx.name, tx.capacity))
                 => /\ result' = "Ok"
                    /\ \E l \in DOMAIN lists' \ DOMAIN lists :
                         /\ DOMAIN lists' = DOMAIN lists \cup {l}
                         /\ lists'[l].lines = <<>>
                         /\ lists'[l].capacity = tx.capacity
                         /\ lists'[l].list_owner = tx.user
                         /\ lists'[l].name = tx.name
                    /\ \A l \in DOMAIN lists : lists'[l] = lists[l]
                    /\ items' = items]_vars

\* A new_list failed against a list of the same owner whose name differs
\* from the requested one after the 32nd byte only; that list is not empty.
C13_Witness ==
    /\ tx.op = "new_list"
    /\ Failed(result)
    /\ \E l \in ListsNamedLike(tx.user, tx.name) :
         lists[l].name # tx.name /\ lists[l].lines # <<>>

\* The errors of the constraints that tie the list account to the claimed owner.
WrongListOwnerClass == {"ConstraintSeeds", "WrongListOwner"}

\* The accounts of the transaction load: the list exists, and the item
\* exists (cancel, finish) or can be created by the caller (add).
TxAccountsLoad ==
    /\ tx.list \in DOMAIN lists
    /\ IF tx.op = "add"
       THEN /\ tx.item \notin DOMAIN items
            /\ lamports[tx.user] >= minimum_balance(ListItem_space(tx.item_name))
       ELSE tx.item \in DOMAIN items

\* C14: an add, cancel or finish whose list account is not the one derived
\* from the claimed list owner and list name fails and changes nothing, with
\* the error of the seeds or has_one constraint when its accounts load.  An
\* instruction that succeeds claimed the owner stored in the list: a finish
\* that closes an item pays that owner, and a cancel by somebody other than
\* the item's creator was sent by that owner.
C14_ListAccountIsDerived ==
    [][(Processing("add") \/ Processing("cancel") \/ Processing("finish")) =>
        /\ tx.list # ListAddress(tx.list_owner, tx.list_name)
              => /\ Failed(result')
                 /\ AccountsUnchanged
                 /\ TxAccountsLoad => result' \in WrongListOwnerClass
        /\ result' = "Ok"
              => /\ lists[tx.list].list_owner = tx.list_owner
                 /\ (tx.op = "finish" /\ tx.item \notin DOMAIN items')
                       => lamports' = [lamports EXCEPT ![lists[tx.list].list_owner] =
                                          @ + items[tx.item].lamports]
                 /\ (tx.op = "cancel" /\ tx.user # items[tx.item].creator)
                       => tx.user = lists[tx.list].list_owner]_vars

\* Somebody claimed to own another owner's list in a finish of an item
\* that list references.
C14_Witness ==
    /\ tx.op = "finish"
    /\ result \in WrongListOwnerClass
    /\ tx.user = tx.list_owner
    /\ lists[tx.list].list_owner # tx.list_owner
    /\ Contains(lists[tx.list].lines, tx.item)

\* The accounts of a state, and of an outcome of FinishOutcome.
Accounts == [lists |-> lists, items |-> items, lamports |-> lamports]
AccountsOf(out) == [lists |-> out.lists, items |-> out.items, lamports |-> out.lamports]

\* The outcome of the finish request r sent after the outcome `out`.
ThenFinish(out, r) == FinishOutcome(AccountsOf(out), r)

\* C15: whenever a finish names an item of its list whose creator is not the
\* list's owner, then from that state the creator's finish followed by the
\* owner's and the owner's followed by the creator's leave the same accounts:
\* the item closed, its reference removed and its whole balance paid to the
\* list's owner; when no party has confirmed yet all four calls succeed; and
\* a party whose counterpart has not confirmed can finish twice with success,
\* the second call changing nothing.  (The first conjunct ties FinishOutcome
\* to the finish instruction.)
C15_FinishCommutes ==
    [][Processing("finish") =>
        /\ FinishOutcome(Accounts, tx) = [lists |-> lists', items |-> items',
                                          lamports |-> lamports', result |-> result']
        /\ (/\ TxListDerived
            /\ tx.item \in DOMAIN items
            /\ Contains(lists[tx.list].lines, tx.item)
            /\ items[tx.item].creator # lists[tx.list].list_owner)
           => LET item  == items[tx.item]
                  owner == lists[tx.list].list_owner
                  rc    == [tx EXCEPT !.user = item.creator]
                  ro    == [tx EXCEPT !.user = owner]
                  c     == FinishOutcome(Accounts, rc)
                  o     == FinishOutcome(Accounts, ro)
                  co    == ThenFinish(c, ro)
                  oc    == ThenFinish(o, rc)
              IN  /\ AccountsOf(co) = AccountsOf(oc)
                  /\ tx.item \notin DOMAIN co.items
                  /\ co.lists = [lists EXCEPT ![tx.list].lines = Retain(@, tx.item)]
                  /\ co.lamports = [lamports EXCEPT ![owner] = @ + item.lamports]
                  /\ (~item.creator_finished /\ ~item.list_owner_finished)
                        => {c.result, o.result, co.result, oc.result} = {"Ok"}
                  /\ ~item.list_owner_finished
                        => /\ c.result = "Ok"
                           /\ c.items[tx.item].creator_finished
                           /\ ThenFinish(c, rc) = c
                  /\ ~item.creator_finished
                        => /\ o.result = "Ok"
                           /\ o.items[tx.item].list_owner_finished
                           /\ ThenFinish(o, ro) = o]_vars

\* A finish by the creator of an item succeeded and left the item waiting
\* for the confirmation of the list's owner, who is somebody else.
C15_Witness ==
    /\ tx.op = "finish"
    /\ result = "Ok"
    /\ tx.item \in DOMAIN items
    /\ tx.user = items[tx.item].creator
    /\ tx.user # lists[tx.list].list_owner
    /\ items[tx.item].creator_finished
    /\ ~items[tx.item].list_owner_finished

\* Some list references the item address i.
Referenced(i) == \E l \in DOMAIN lists : Contains(lists[l].lines, i)

\* C16 as claimed: an item address whose account was closed never holds an
\* account again and is never referenced by a list again.
C16_ClosedIsTerminal ==
    \A i \in closed : i \notin DOMAIN items /\ ~Referenced(i)

\* C16: an item account comes into existence only by a successful add, with
\* both flags false; while it exists a flag only changes from false to true,
\* and only by a successful finish of that item sent by the matching party
\* (the creator for creator_finished, the owner of the list that references
\* it for list_owner_finished); it never exists with both flags true; when
\* it is closed no list references it; and while no account exists at the
\* address no list references it and every cancel or finish naming it fails
\* and changes nothing.
C16_ItemLifecycle ==
    [][\A i \in ItemKeys :
        /\ (i \notin DOMAIN items /\ i \in DOMAIN items')
              => /\ Processing("add") /\ tx.item = i /\ result' = "Ok"
                 /\ ~items'[i].creator_finished
                 /\ ~items'[i].list_owner_finished
        /\ (i \in DOMAIN items /\ i \in DOMAIN items')
              => /\ items[i].creator_finished => items'[i].creator_finished
                 /\ items[i].list_owner_finished => items'[i].list_owner_finished
                 /\ items'[i].creator_finished # items[i].creator_finished
                       => /\ Processing("finish") /\ tx.item = i /\ result' = "Ok"
                          /\ tx.user = items[i].creator
                 /\ items'[i].list_owner_finished # items[i].list_owner_finished
                       => /\ Processing("finish") /\ tx.item = i /\ result' = "Ok"
                          /\ tx.user = lists[tx.list].list_owner
                          /\ Contains(lists[tx.list].lines, i)
        /\ i \in DOMAIN items'
              => ~(items'[i].creator_finished /\ items'[i].list_owner_finished)
        /\ i \notin DOMAIN items'
              => \A l \in DOMAIN lists' : ~Contains(lists'[l].lines, i)
        /\ (/\ i \notin DOMAIN items
            /\ (Processing("cancel") \/ Processing("finish"))
            /\ tx.item = i)
              => Failed(result') /\ AccountsUnchanged]_vars

\* An item that the owner of its list had confirmed was closed, and a later
\* finish naming its address has been rejected.
C16_Witness ==
    /\ tx.op = "finish"
    /\ tx.item \in closed
    /\ tx.item \notin DOMAIN items
    /\ Failed(result)
    /\ \E i \in DOMAIN items : items[i].list_owner_finished

\* C17: after a successful add with bounty b the new item holds exactly b
\* lamports, b being at least the rent the item account received when it
\* was created; the caller has paid exactly b (the rent and the transfer of
\* b minus the rent), and no other balance has changed.
C17_ItemHoldsBounty ==
    [][(Processing("add") /\ result' = "Ok") =>
        /\ tx.bounty >= minimum_balance(ListItem_space(tx.item_name))
        /\ tx.item \notin DOMAIN items
        /\ items'[tx.item].lamports = tx.bounty
        /\ lamports' = [lamports EXCEPT ![tx.user] = @ - tx.bounty]
        /\ \A i \in DOMAIN items : items'[i] = items[i]
        /\ \A l \in DOMAIN lists : lists'[l].lamports = lists[l].lamports]_vars

\* An add with a bounty above the rent succeeded while another item holds
\* just its rent, the bounty it was added with.
C17_Witness ==
    /\ tx.op = "add"
    /\ result = "Ok"
    /\ tx.bounty > minimum_balance(ListItem_space(tx.item_name))
    /\ \E i \in DOMAIN items :
         items[i].lamports = minimum_balance(ListItem_space(items[i].name))

\* C18: a finish of a listed item whose creator is also the owner of the
\* list, sent by that identity, succeeds at once: the call records both
\* confirmations, the item account is closed, its reference leaves the list
\* and its whole balance is paid to that identity, all in the one step.
C18_OwnerOwnItem ==
    [][(/\ Processing("finish")
        /\ TxListDerived
        /\ tx.item \in DOMAIN items
        /\ Contains(lists[tx.list].lines, tx.item)
        /\ items[tx.item].creator = lists[tx.list].list_owner
        /\ tx.user = items[tx.item].creator)
        => /\ result' = "Ok"
           /\ Confirm(lists[tx.list], items[tx.item], tx.user).creator_finished
           /\ Confirm(lists[tx.list], items[tx.item], tx.user).list_owner_finished
           /\ items' = [k \in DOMAIN items \ {tx.item} |-> items[k]]
           /\ lists' = [lists EXCEPT ![tx.list].lines = Retain(@, tx.item)]
           /\ lamports' = [lamports EXCEPT ![tx.user] = @ + items[tx.item].lamports]]_vars

\* The owner's finish closed the only item ever closed, and every wallet
\* holds what it held before the item was added: the owner had created it.
C18_Witness ==
    /\ tx.op = "finish"
    /\ result = "Ok"
    /\ closed = {tx.item}
    /\ DOMAIN items = {}
    /\ tx.user = lists[tx.list].list_owner
    /\ \A u \in Users :
         lamports[u] = IF u = tx.user THEN InitLamports[u] - lists[tx.list].lamports
                                      ELSE InitLamports[u]

\* C19: every existing item is referenced by a list; whenever no transaction
\* is in flight its creator can send the cancel that names that list, the
\* item and the creator as item_creator; such a cancel succeeds, closes the
\* item and pays its whole balance to the creator; and, the creator sending
\* it whenever it can again and again, every item that exists is eventually
\* closed.
C19_NoStuckBounty ==
    /\ [](\A i \in DOMAIN items :
            Referenced(i) /\ (result = "None" => ENABLED CreatorCancel(i)))
    /\ [][(/\ Processing("cancel")
            /\ TxListDerived
            /\ tx.item \in DOMAIN items
            /\ Contains(lists[tx.list].lines, tx.item)
            /\ tx.user = items[tx.item].creator
            /\ tx.item_creator = items[tx.item].creator)
            => /\ result' = "Ok"
               /\ tx.item \notin DOMAIN items'
               /\ lamports' = [lamports EXCEPT ![tx.user] = @ + items[tx.item].lamports]]_vars
    /\ \A i \in ItemKeys : (i \in DOMAIN items) ~> (i \notin DOMAIN items)

\* The creator's cancel closed an item that the owner of the list, somebody
\* else, had confirmed as finished.
C19_Witness ==
    /\ tx.op = "cancel"
    /\ result = "Ok"
    /\ tx.item \in closed
    /\ tx.item \notin DOMAIN items
    /\ tx.user = tx.item_creator
    /\ tx.user # lists[tx.list].list_owner

\* No list references an address twice, or an address that holds no item.
LinesWellFormed ==
    \A l \in DOMAIN lists :
        LET lines == lists[l].lines
        IN  /\ \A j, k \in 1..Len(lines) : lines[j] = lines[k] => j = k
            /\ \A k \in 1..Len(lines) : lines[k] \in DOMAIN items

\* C20: in every state no list references an address twice or an address
\* that holds no item; and a cancel or finish that closes an item takes that
\* item's reference, and only it, out of its list: the references before it
\* and after it remain, in their order, and every other list is unchanged.
C20_LinesWellFormed ==
    [][/\ (lists' # lists \/ items' # items) => LinesWellFormed'
       /\ (/\ Processing("cancel") \/ Processing("finish")
           /\ tx.item \in DOMAIN items
           /\ tx.item \notin DOMAIN items')
            => LET lines == lists[tx.list].lines
               IN  /\ \E k \in 1..Len(lines) :
                        /\ lines[k] = tx.item
                        /\ lists'[tx.list].lines =
                              SubSeq(lines, 1, k - 1) \o SubSeq(lines, k + 1, Len(lines))
                   /\ Len(lists'[tx.list].lines) = Len(lines) - 1
                   /\ \A l \in DOMAIN lists \ {tx.list} : lists'[l] = lists[l]]_vars

\* An item was closed and its list still references two items, the one
\* added first in front.
C20_Witness ==
    /\ tx.op \in {"cancel", "finish"}
    /\ result = "Ok"
    /\ tx.item \notin DOMAIN items
    /\ lists[tx.list].lines \in {<<"i2", "i3">>, <<"i3", "i2">>}
    /\ tx.item = "i1"


====
